---- MODULE Spec2Model ----
(***************************************************************************)
(* The resume-analysis workflow of my_agent: the main graph built by       *)
(* get_resume_analysis_agent (preprocessor, fan-out by                     *)
(* initiate_analysis_nodes, one analysis subgraph per applicant,           *)
(* output_node) and the two subgraphs (technical: github_validation_node,  *)
(* route_analysis, candidate_assessor_node, subgraph_output_node;          *)
(* non-technical: candidate_assessor_node, subgraph_output_node).          *)
(*                                                                         *)
(* Node functions are modelled as the Python of their bodies, exceptions   *)
(* included.  The graph library is modelled by what the wiring in          *)
(* resume_analysis.py asks of it: a Send per applicant starts one subgraph *)
(* task, the tasks of a step run concurrently, a node that returns None    *)
(* updates nothing, the `add` reducer appends a task's classification      *)
(* update, the node after the fan-out runs once every task has finished,   *)
(* and an exception raised in a node ends the whole invocation.            *)
(* Graph state is a plain dictionary: the declared TypedDict schemas are   *)
(* not enforced.                                                           *)
(***************************************************************************)
EXTENDS Integers, Sequences, FiniteSets, TLC

VARIABLES
    tech,                  \* get_resume_analysis_agent(tech): which graph runs
    gate_helpers_defined,  \* are _check_user_exists/_check_contribution_count bound
    input,                 \* the dictionary the graph is invoked with
    world,                 \* per applicant: the answers of GitHub and of the grader
    node,                  \* position of the main graph
    state,                 \* the main graph's state dictionary
    sub,                   \* per applicant: the subgraph task (node, state)
    calls,                 \* per applicant: the calls issued so far
    result,                \* <<>> or <<the OutputState output_node returned>>
    error,                 \* the exception that ended the invocation, if any
    http,                  \* app.py: the webhook request at hand and its handling
    ats,                   \* data.py: the clock, the sync tokens, the fetch under way
    proc                   \* data.py: the ApplicationProcessor and its call under way

vars == <<tech, gate_helpers_defined, input, world, node, state, sub, calls,
          result, error, http, ats, proc>>

---------------------------------------------------------------------------
(* Bounds of the model *)

MaxApplicants == 2
MaxContributions == 3

(* Program constants *)

HTTP_OK == 200
CONTRIBUTION_THRESHOLD == 2

---------------------------------------------------------------------------
(* Inputs *)

GithubUsernames == {"", "octocat"}
Grades == {<<1, 1, 1>>, <<80, 90, 100>>}

\* requests.get(.../users/<name>): a response with a status code, or an exception
UserResponses ==
    {[kind |-> "response", status_code |-> s] : s \in {HTTP_OK, 404, 500}}
    \cup {[kind |-> "exception", status_code |-> 0]}

\* requests.post(.../graphql): a response (with totalContributions when 200), or
\* an exception
ContributionResponses ==
    {[kind |-> "response", status_code |-> HTTP_OK, totalContributions |-> n] :
        n \in 0..MaxContributions}
    \cup {[kind |-> "response", status_code |-> 500, totalContributions |-> 0],
          [kind |-> "exception", status_code |-> 0, totalContributions |-> 0]}

UnaskedContribution ==
    [kind |-> "response", status_code |-> 500, totalContributions |-> 0]

\* What the outside world would answer for one applicant.  An answer that is
\* never asked for (the contribution count of an identity the existence
\* query does not confirm) is fixed.
Worlds ==
    {w \in [user : UserResponses, contrib : ContributionResponses, grade : Grades] :
        ~(w.user.kind = "response" /\ w.user.status_code = HTTP_OK)
            => w.contrib = UnaskedContribution}

ApplicantOf(i, g) == [app_id |-> i, github |-> g, resume |-> <<"cv", i>>]

JobData == [job_id |-> "J1", name |-> "Software Engineer (Intern)",
            info |-> "Backend Engineer"]

NoError == [type |-> "", task |-> 0]

\* no webhook request at hand
NoRequest == [pc |-> "idle"]

\* no AshbyClient, no ApplicationProcessor in use
NoClient == [pc |-> "unused"]
NoProcessor == [pc |-> "unused"]
NoCalls == [user_exists |-> 0, contribution_count |-> 0, grader |-> 0,
            assess_candidate |-> 0, prompts |-> <<>>]

\* get_job_data's `return {}`: no posting, or no job data
NoJobData == <<>>

\* the answers of a world nobody asks
UnaskedWorld ==
    [user |-> [kind |-> "response", status_code |-> 404],
     contrib |-> UnaskedContribution, grade |-> <<1, 1, 1>>]

---------------------------------------------------------------------------
(* main_states.py / subgraph_states.py / prompts.py *)

AgentState(job_id, job_name, job_info, applicants, classification) ==
    [job_id |-> job_id, job_name |-> job_name, job_info |-> job_info,
     applicants |-> applicants, classification |-> classification]

AnalysisState(job_name, job_info, is_valid, applicant_id, github, resume, score) ==
    [job_name_subgraph |-> job_name, job_info_subgraph |-> job_info,
     is_valid |-> is_valid, applicant_id |-> applicant_id,
     github_username |-> github, resume |-> resume, final_score |-> score]

OutputState(job_id, final_classification) ==
    [job_id |-> job_id, final_classification |-> final_classification]

GraderOutput == {"technical_expertise", "practical_experience", "job_alignment"}

\* the placeholders of the job_grader template
job_grader == {"job_name", "job_info", "applicant"}

\* final_score is a float; the model keeps it as an exact fraction <<num, den>>
Score(num, den) == <<num, den>>

\* operator.add on lists, the reducer of AgentState.classification
add(a, b) == a \o b

---------------------------------------------------------------------------
(* subgraph_nodes.py *)

Returned(update) == [raised |-> "", update |-> update]
Raised(exc) == [raised |-> exc, update |-> <<>>]

\* route_analysis with the validity test lost
route_analysis_always_passed(s) == "passed"

route_analysis(s) == IF s.is_valid THEN "passed" ELSE "failed"

check_user_exists(response) == response.status_code = HTTP_OK

\* "True", "False" or "None"
check_contribution_count(response) ==
    IF response.status_code = HTTP_OK
    THEN IF response.totalContributions > CONTRIBUTION_THRESHOLD
         THEN "True" ELSE "False"
    ELSE "None"

\* Python's `not x` for the three values above
Not(v) == v # "True"

\* a gate that issues both queries before it looks at either answer
validate_github_both_queries(defined, w) ==
    IF ~defined
    THEN [out |-> Raised("NameError"), user_exists |-> 0, contribution_count |-> 0]
    ELSE IF w.user.kind = "exception"
    THEN [out |-> Raised("RequestException"), user_exists |-> 1,
          contribution_count |-> 0]
    ELSE IF w.contrib.kind = "exception"
    THEN [out |-> Raised("RequestException"), user_exists |-> 1,
          contribution_count |-> 1]
    ELSE IF ~check_user_exists(w.user)
    THEN [out |-> Returned(<<FALSE>>), user_exists |-> 1, contribution_count |-> 1]
    ELSE IF Not(check_contribution_count(w.contrib))
    THEN [out |-> Returned(<<FALSE>>), user_exists |-> 1, contribution_count |-> 1]
    ELSE [out |-> Returned(<<TRUE>>), user_exists |-> 1, contribution_count |-> 1]

\* validate_github calls _check_user_exists and _check_contribution_count.  The
\* module defines check_user_exists and check_contribution_count only, so as
\* shipped (gate_helpers_defined = FALSE) the first call raises NameError.
\* With the two names bound to the module's helpers the body runs as written.
\* The outcome also says which queries were issued.
validate_github(defined, w) ==
    IF ~defined
    THEN [out |-> Raised("NameError"), user_exists |-> 0, contribution_count |-> 0]
    ELSE IF w.user.kind = "exception"
    THEN [out |-> Raised("RequestException"), user_exists |-> 1,
          contribution_count |-> 0]
    ELSE IF ~check_user_exists(w.user)
    THEN [out |-> Returned(<<FALSE>>), user_exists |-> 1, contribution_count |-> 0]
    ELSE IF w.contrib.kind = "exception"
    THEN [out |-> Raised("RequestException"), user_exists |-> 1,
          contribution_count |-> 1]
    ELSE IF Not(check_contribution_count(w.contrib))
    THEN [out |-> Returned(<<FALSE>>), user_exists |-> 1, contribution_count |-> 1]
    ELSE [out |-> Returned(<<TRUE>>), user_exists |-> 1, contribution_count |-> 1]

\* job_grader.format(job_name=state['job_name'], job_info=state['job_info']):
\* the values the prompt is filled with
format_job_grader(s) == [job_name |-> s.job_name, job_info |-> s.job_info]

\* assess_candidate: the prompt is formatted from state['job_name'] and
\* state['job_info'] (keys the AnalysisState built at fan-out does not have),
\* without the template's `applicant`; the grader is then invoked and
\* response.final_score is read from a GraderOutput.
assess_candidate(s, w) ==
    IF ~({"job_name", "job_info"} \subseteq DOMAIN s)
    THEN [out |-> Raised("KeyError"), grader |-> 0, prompts |-> <<>>]
    ELSE IF ~(job_grader \subseteq {"job_name", "job_info"})
    THEN [out |-> Raised("KeyError"), grader |-> 0, prompts |-> <<>>]
    ELSE IF "final_score" \notin GraderOutput
    THEN [out |-> Raised("AttributeError"), grader |-> 1,
          prompts |-> <<format_job_grader(s)>>]
    ELSE [out |-> Returned(<<Score(w.grade[1] + w.grade[2] + w.grade[3], 3)>>),
          grader |-> 1, prompts |-> <<format_job_grader(s)>>]

\* subgraph_output_node: `pass`, it returns None: no update of any key
subgraph_output_node(s) == <<>>

---------------------------------------------------------------------------
(* resume_analysis.py: the wiring *)

entry_point(t) ==
    IF t THEN "github_validation_node" ELSE "candidate_assessor_node"

\* add_conditional_edges("github_validation_node", route_analysis, {...})
conditional_edge(route) ==
    IF route = "passed" THEN "candidate_assessor_node" ELSE "subgraph_output_node"

\* a join that waits for the first task only
first_subgraph_finished == \E i \in DOMAIN sub : sub[i].node = "END"

\* add_edge("create_analysis_subgraph", "output_node"): output_node is
\* triggered once the tasks of the fan-out step have all finished
subgraphs_joined == \A i \in DOMAIN sub : sub[i].node = "END"

---------------------------------------------------------------------------
(* main_nodes.py *)

preprocessor(inp) ==
    AgentState(inp.job_data.job_id, inp.job_data.name, inp.job_data.info,
               inp.applicants, <<>>)

\* a fan-out whose every Send carries the first applicant
initiate_analysis_nodes_first_applicant(st) ==
    [i \in 1..Len(st.applicants) |->
        AnalysisState(st.job_name, st.job_info, TRUE, st.applicants[1].app_id,
                      st.applicants[1].github, st.applicants[1].resume,
                      Score(0, 1))]

\* one Send("create_analysis_subgraph", AnalysisState(...)) per applicant
initiate_analysis_nodes(st) ==
    [i \in 1..Len(st.applicants) |->
        AnalysisState(st.job_name, st.job_info, TRUE, st.applicants[i].app_id,
                      st.applicants[i].github, st.applicants[i].resume,
                      Score(0, 1))]

output_node(st) == OutputState(st.job_id, st.classification)

---------------------------------------------------------------------------
(* The invocation of the compiled graph *)

Init ==
    /\ tech \in BOOLEAN
    /\ gate_helpers_defined \in BOOLEAN
    /\ \E n \in 0..MaxApplicants, found \in BOOLEAN :
        /\ \E gs \in [1..n -> GithubUsernames] :
              input = [job_data |-> IF found THEN JobData ELSE NoJobData,
                       applicants |-> [i \in 1..n |-> ApplicantOf(i, gs[i])]]
        /\ world \in [1..n -> IF found THEN Worlds ELSE {UnaskedWorld}]
        /\ calls = [i \in 1..n |-> NoCalls]
    /\ node = "START"
    /\ state = AgentState("", "", "", <<>>, <<>>)
    /\ sub = <<>>
    /\ result = <<>>
    /\ error = NoError
    /\ http = NoRequest
    /\ ats = NoClient
    /\ proc = NoProcessor

Running == node = "create_analysis_subgraph" /\ error = NoError

\* a node of task i raised: the exception leaves the subgraph and the main
\* graph's invoke, no further node runs
Raise(i, exc) ==
    /\ sub' = [sub EXCEPT ![i].node = "RAISED"]
    /\ error' = [type |-> exc, task |-> i]
    /\ node' = "FAILED"

\* START -> preprocessor.  state["job_data"]["job_id"] raises KeyError on the
\* empty dictionary of a failed job lookup.
Preprocessor ==
    /\ node = "START"
    /\ IF {"job_id", "name", "info"} \subseteq DOMAIN input.job_data
       THEN /\ state' = preprocessor(input)
            /\ node' = "preprocessor"
            /\ UNCHANGED error
       ELSE /\ error' = [type |-> "KeyError", task |-> 0]
            /\ node' = "FAILED"
            /\ UNCHANGED state
    /\ UNCHANGED <<ats, proc, http, tech, gate_helpers_defined, input, world, sub, calls, result>>

\* the conditional edge of preprocessor: the fan-out.  With no applicant no
\* task is sent and the graph ends without running output_node.
InitiateAnalysisNodes ==
    /\ node = "preprocessor"
    /\ LET sends == initiate_analysis_nodes(state) IN
        /\ sub' = [i \in 1..Len(sends) |->
                      [node |-> entry_point(tech), state |-> sends[i]]]
        /\ node' = IF Len(sends) = 0 THEN "END" ELSE "create_analysis_subgraph"
    /\ UNCHANGED <<ats, proc, http, tech, gate_helpers_defined, input, world, state, calls,
                   result, error>>

\* a gate that reads the answers of the first task for every task
GithubValidationNode_first_world(i) ==
    /\ Running
    /\ sub[i].node = "github_validation_node"
    /\ LET r == validate_github(gate_helpers_defined, world[1]) IN
        /\ calls' = [calls EXCEPT
                        ![i].user_exists = @ + r.user_exists,
                        ![i].contribution_count = @ + r.contribution_count]
        /\ IF r.out.raised # ""
           THEN Raise(i, r.out.raised)
           ELSE LET s == [sub[i].state EXCEPT !.is_valid = r.out.update[1]] IN
                /\ sub' = [sub EXCEPT ![i] =
                              [node |-> conditional_edge(route_analysis(s)),
                               state |-> s]]
                /\ UNCHANGED <<error, node>>
    /\ UNCHANGED <<ats, proc, http, tech, gate_helpers_defined, input, world, state, result>>

\* github_validation_node, then its conditional edge route_analysis
GithubValidationNode(i) ==
    /\ Running
    /\ sub[i].node = "github_validation_node"
    /\ LET r == validate_github(gate_helpers_defined, world[i]) IN
        /\ calls' = [calls EXCEPT
                        ![i].user_exists = @ + r.user_exists,
                        ![i].contribution_count = @ + r.contribution_count]
        /\ IF r.out.raised # ""
           THEN Raise(i, r.out.raised)
           ELSE LET s == [sub[i].state EXCEPT !.is_valid = r.out.update[1]] IN
                /\ sub' = [sub EXCEPT ![i] =
                              [node |-> conditional_edge(route_analysis(s)),
                               state |-> s]]
                /\ UNCHANGED <<error, node>>
    /\ UNCHANGED <<ats, proc, http, tech, gate_helpers_defined, input, world, state, result>>

\* candidate_assessor_node -> subgraph_output_node
CandidateAssessorNode(i) ==
    /\ Running
    /\ sub[i].node = "candidate_assessor_node"
    /\ LET r == assess_candidate(sub[i].state, world[i]) IN
        /\ calls' = [calls EXCEPT ![i].assess_candidate = @ + 1,
                                  ![i].grader = @ + r.grader,
                                  ![i].prompts = @ \o r.prompts]
        /\ IF r.out.raised # ""
           THEN Raise(i, r.out.raised)
           ELSE /\ sub' = [sub EXCEPT ![i] =
                              [node |-> "subgraph_output_node",
                               state |-> [sub[i].state EXCEPT
                                             !.final_score = r.out.update[1]]]]
                /\ UNCHANGED <<error, node>>
    /\ UNCHANGED <<ats, proc, http, tech, gate_helpers_defined, input, world, state, result>>

\* subgraph_output_node is the finish point: the task ends and what the node
\* returned for `classification` is appended to the main graph's list
SubgraphOutputNode(i) ==
    /\ Running
    /\ sub[i].node = "subgraph_output_node"
    /\ sub' = [sub EXCEPT ![i].node = "END"]
    /\ state' = [state EXCEPT !.classification =
                    add(@, subgraph_output_node(sub[i].state))]
    /\ UNCHANGED <<ats, proc, http, tech, gate_helpers_defined, input, world, node, calls,
                   result, error>>

\* create_analysis_subgraph -> output_node -> END
OutputNode ==
    /\ Running
    /\ subgraphs_joined
    /\ result' = <<output_node(state)>>
    /\ node' = "END"
    /\ UNCHANGED <<ats, proc, http, tech, gate_helpers_defined, input, world, state, sub, calls,
                   error>>

Next ==
    \/ Preprocessor
    \/ InitiateAnalysisNodes
    \/ \E i \in DOMAIN sub : GithubValidationNode(i)
    \/ \E i \in DOMAIN sub : CandidateAssessorNode(i)
    \/ \E i \in DOMAIN sub : SubgraphOutputNode(i)
    \/ OutputNode

Spec == Init /\ [][Next]_vars

---------------------------------------------------------------------------
(* app.py: the webhook endpoint /resume_analysis *)

JOB_IDS == {"82646b74-6c72-41a2-85a2-c8988a71fd53"}

ASHBY_WEBHOOK_SECRET == "secret"

\* the keys a sender may sign with, the event types and the job ids it may name
SigningKeys == {ASHBY_WEBHOOK_SECRET, "forged"}
WebhookActions == {"applicationSubmit", "candidateHire"}
WebhookJobIds == JOB_IDS \cup {"00000000-other-job"}

\* request.data, the raw body: whether it is JSON, whether jsonschema's
\* validate accepts it, and its action and data.job.id
RequestBodies ==
    [is_json : BOOLEAN, schema_valid : BOOLEAN, action : WebhookActions,
     job_id : WebhookJobIds]

\* hmac.new(key, msg, hashlib.sha256).hexdigest(): a digest is equal to
\* another only for the same key and the same message
hexdigest(key, msg) == [key |-> key, msg |-> msg]

compare_digest(a, b) == a = b

\* the X-Ashby-Signature header: absent, or one digest
NoSignature == <<>>
Signatures ==
    {NoSignature} \cup {<<hexdigest(k, b)>> : k \in SigningKeys, b \in RequestBodies}

Requests == [signature : Signatures, data : RequestBodies]

\* the applications get_all_job_applications yields for a job
ApplicationsOf(job_id) == {"app-1", "app-2"}

\* what a call of the view function returns and what it did on the way
Handled(returned, status, fetched, invoked, written) ==
    [returned |-> returned, status |-> status, fetched |-> fetched,
     invoked |-> invoked, written |-> written]

\* a signature check that accepts any header that is present
validate_signature_any_header(request) == request.signature # NoSignature

\* _validate_signature
validate_signature(request) ==
    IF request.signature = NoSignature
    THEN FALSE
    ELSE compare_digest(hexdigest(ASHBY_WEBHOOK_SECRET, request.data),
                        request.signature[1])

\* _validate_resume_analysis_schema: validate(...) raises ValidationError, or
\* the function falls off its end and returns None
validate_resume_analysis_schema(data) ==
    IF data.schema_valid THEN Returned(<<"None">>) ELSE Raised("ValidationError")

\* ashby_webhook, statement by statement.  `not None` is true, so a body
\* the schema accepts is answered 500 as well; get_resume_analysis_agent()
\* is called without its `tech` argument, a TypeError the except clause
\* turns into 500; the result is never written back (`pass`).
ashby_webhook(request) ==
    IF ~validate_signature(request)
    THEN Handled("response", 401, {}, FALSE, {})
    ELSE IF ~request.data.is_json
    THEN Handled("response", 400, {}, FALSE, {})
    ELSE LET v == validate_resume_analysis_schema(request.data) IN
    IF v.raised # ""
    THEN Handled(v.raised, 500, {}, FALSE, {})
    ELSE IF Not(v.update[1])
    THEN Handled("response", 500, {}, FALSE, {})
    ELSE IF request.data.action # "applicationSubmit"
    THEN Handled("None", 0, {}, FALSE, {})
    ELSE IF request.data.job_id \in JOB_IDS
    THEN Handled("None", 0, {}, FALSE, {})
    ELSE Handled("response", 500,
                 {"get_job_posting_data", "get_all_job_applications"},
                 FALSE, {})

\* the values the workflow's variables keep while the endpoint is looked at
WorkflowIdle ==
    /\ tech = FALSE
    /\ gate_helpers_defined = FALSE
    /\ input = [job_data |-> NoJobData, applicants |-> <<>>]
    /\ world = <<>>
    /\ calls = <<>>
    /\ node = "START"
    /\ state = AgentState("", "", "", <<>>, <<>>)
    /\ sub = <<>>
    /\ result = <<>>
    /\ error = NoError

InitWebhook ==
    /\ WorkflowIdle
    /\ http = NoRequest
    /\ ats = NoClient
    /\ proc = NoProcessor

\* a POST arrives at /resume_analysis
Receive ==
    /\ http.pc \in {"idle", "responded"}
    /\ \E request \in Requests : http' = [pc |-> "received", request |-> request]
    /\ UNCHANGED <<ats, proc, tech, gate_helpers_defined, input, world, node,
                   state, sub, calls, result, error>>

\* the view function runs to its return
AshbyWebhook ==
    /\ http.pc = "received"
    /\ http' = [pc |-> "responded", request |-> http.request,
                handled |-> ashby_webhook(http.request)]
    /\ UNCHANGED <<ats, proc, tech, gate_helpers_defined, input, world, node,
                   state, sub, calls, result, error>>

NextWebhook ==
    \/ Receive
    \/ AshbyWebhook

SpecWebhook == InitWebhook /\ [][NextWebhook]_vars

---------------------------------------------------------------------------
(* data.py: SyncToken, SyncTokenManager, AshbyClient._fetch_job_applications *)

MaxNow == 7
MaxData == 2
MaxCount == 6

\* difference_in_days <= 6
VALID_DAYS == 6

\* if count > 5: raise Exception("Too many failed requests")
FAILED_LIMIT == 5

JobPostingIds == {"jobA", "jobB"}

\* the days that may pass between two fetches
TickDays == {VALID_DAYS, VALID_DAYS + 1}

\* Python's None, for a value that is otherwise a tuple
None == <<>>

Truthy(v) == v # None

\* the sync token the server issues for a job, the n-th application it
\* serves, the cursor after n applications, and the cursor ""
Token(job_id) == <<"syncToken", job_id>>
Application(job_id, n) == <<"application", job_id, n>>
Cursor(n) == <<"cursor", n>>
EmptyCursor == <<"">>

\* SyncToken.__init__
SyncToken == [sync_token |-> None, last_updated |-> None]

\* SyncToken._valid_time_difference, the clock in days
valid_time_difference(self, now) == now - self.last_updated[1] <= VALID_DAYS

\* SyncToken.get_sync_token_and_cursor.  It calls self.valid_time_difference,
\* the class defines _valid_time_difference: as shipped (defined = FALSE) the
\* call raises AttributeError; with the method under the name it is called
\* by, the body runs as written.
get_sync_token_and_cursor(self, now, defined) ==
    IF ~Truthy(self.last_updated)
    THEN Returned(None)
    ELSE IF ~defined
    THEN Raised("AttributeError")
    ELSE IF ~valid_time_difference(self, now)
    THEN Returned(None)
    ELSE Returned(self.sync_token)

\* SyncToken.set_sync_token
set_sync_token(self, token, now) ==
    [sync_token |-> token, last_updated |-> <<now>>]

\* the class attribute SyncTokenManager.sync_tokens maps a job id to an
\* object; `objects` holds the SyncToken objects made so far
NoSyncTokens == [sync_tokens |-> <<>>, objects |-> <<>>]

\* a manager that hands the first object it made to every job
get_sync_token_shared(mgr, job_id) ==
    IF Len(mgr.objects) > 0
    THEN [mgr |-> mgr, instance |-> 1]
    ELSE [mgr |-> [sync_tokens |-> mgr.sync_tokens @@ (job_id :> 1),
                   objects |-> Append(mgr.objects, SyncToken)],
          instance |-> 1]

\* SyncTokenManager.get_sync_token
get_sync_token(mgr, job_id) ==
    IF job_id \in DOMAIN mgr.sync_tokens
    THEN [mgr |-> mgr, instance |-> mgr.sync_tokens[job_id]]
    ELSE LET id == Len(mgr.objects) + 1 IN
         [mgr |-> [sync_tokens |-> mgr.sync_tokens @@ (job_id :> id),
                   objects |-> Append(mgr.objects, SyncToken)],
          instance |-> id]

\* the frame of one call of _fetch_job_applications
Frame(pc, job_id, instance, payload, data, count, got, request, response, returns, exc) ==
    [pc |-> pc, job_id |-> job_id, instance |-> instance, payload |-> payload,
     data |-> data, count |-> count, got |-> got, request |-> request,
     response |-> response, returns |-> returns, exc |-> exc]

NoFetch == Frame("idle", "", 0, <<>>, <<>>, 0, Returned(None), <<>>, <<>>, "", "")

\* what the server may answer: a failed response (`not response`), the
\* sync_token_expired error, or a page
FailedResponse == [ok |-> FALSE]

ExpiredResponse ==
    [ok |-> TRUE, success |-> FALSE, error |-> <<"sync_token_expired">>]

Page(results, syncToken, nextCursor, moreDataAvailable) ==
    [ok |-> TRUE, success |-> TRUE, error |-> <<>>, results |-> results,
     syncToken |-> syncToken, nextCursor |-> nextCursor,
     moreDataAvailable |-> moreDataAvailable]

\* the pages the server may answer a request of frame f with: no application
\* or the next one of the job, with or without a sync token and a cursor
Pages(f) ==
    {Page(r, s, c, m) :
        r \in {<<>>} \cup {<<Application(f.job_id, Len(f.data) + 1)>> :
                               x \in {y \in {1} : Len(f.data) < MaxData}},
        s \in {None, Token(f.job_id)},
        c \in {None, Cursor(Len(f.data) + 1)},
        m \in BOOLEAN}

\* count += 1; the model keeps count up to MaxCount, all the values above
\* FAILED_LIMIT being alike to the code
Incremented(count) == IF count < MaxCount THEN count + 1 ELSE count

\* lines 149-165: the payload, the job's SyncToken and its token
start_fetch(mgr, job_id, now, defined) ==
    LET g == get_sync_token(mgr, job_id)
        got == get_sync_token_and_cursor(g.mgr.objects[g.instance], now, defined)
        payload == [jobId |-> job_id, status |-> "Active"]
    IN  [mgr |-> g.mgr,
         fetch |->
            IF got.raised # ""
            THEN Frame("raised", job_id, g.instance, payload, <<>>, 0, got,
                       <<>>, <<>>, "", got.raised)
            ELSE Frame("loop", job_id, g.instance,
                       IF Truthy(got.update)
                       THEN payload @@ ("syncToken" :> got.update)
                       ELSE payload,
                       <<>>, 0, got, <<>>, <<>>, "", "")]

\* an exception inside the try block: logged by the except clause, the
\* function then falls off its end and returns None
Swallowed(f, exc) == [f EXCEPT !.pc = "returned", !.returns = "None", !.exc = exc]

\* a loop that appends a page and stops at the final one, but never puts
\* the page's cursor in the payload
loop_turn_cursor_kept(mgr, f0, response, now) ==
    LET f == [f0 EXCEPT !.request = f0.payload, !.response = response] IN
    IF ~response.ok
    THEN LET count == Incremented(f.count) IN
         [mgr |-> mgr,
          fetch |-> IF count > FAILED_LIMIT
                    THEN Swallowed([f EXCEPT !.count = count], "Exception")
                    ELSE [f EXCEPT !.count = count]]
    ELSE IF response.success = FALSE /\ response.error = <<"sync_token_expired">>
    THEN [mgr |-> [mgr EXCEPT !.objects[f.instance] = set_sync_token(@, None, now)],
          fetch |-> IF "syncToken" \in DOMAIN f.payload
                    THEN [f EXCEPT !.payload =
                            [k \in DOMAIN f.payload \ {"syncToken"} |-> f.payload[k]]]
                    ELSE Swallowed(f, "KeyError")]
    ELSE LET data == f.data \o response.results IN
         IF Truthy(response.syncToken) /\ response.moreDataAvailable = FALSE
         THEN [mgr |-> [mgr EXCEPT !.objects[f.instance] =
                          set_sync_token(@, response.syncToken, now)],
               fetch |-> [f EXCEPT !.data = data, !.pc = "returned",
                                   !.returns = "list"]]
         ELSE [mgr |-> mgr,
               fetch |-> [f EXCEPT !.data = data,
                                   !.count = Incremented(f.count)]]

\* one turn of the `while True` loop (lines 166-206): the request is posted
\* with the payload and the response is dealt with
loop_turn(mgr, f0, response, now) ==
    LET f == [f0 EXCEPT !.request = f0.payload, !.response = response] IN
    IF ~response.ok
    THEN LET count == Incremented(f.count) IN
         [mgr |-> mgr,
          fetch |-> IF count > FAILED_LIMIT
                    THEN Swallowed([f EXCEPT !.count = count], "Exception")
                    ELSE [f EXCEPT !.count = count]]
    ELSE IF response.success = FALSE /\ response.error = <<"sync_token_expired">>
    THEN LET reset == [mgr EXCEPT !.objects[f.instance] =
                          set_sync_token(@, None, now)] IN
         [mgr |-> reset,
          fetch |-> IF "syncToken" \in DOMAIN f.payload
                    THEN [f EXCEPT !.payload =
                            [k \in DOMAIN f.payload \ {"syncToken"} |-> f.payload[k]]]
                    ELSE Swallowed(f, "KeyError")]
    ELSE LET data == f.data \o response.results
             sync_token == response.syncToken
             next_cursor == IF response.nextCursor = None
                            THEN EmptyCursor ELSE response.nextCursor
         IN  IF Truthy(sync_token) /\ response.moreDataAvailable = FALSE
             THEN [mgr |-> [mgr EXCEPT !.objects[f.instance] =
                              set_sync_token(@, sync_token, now)],
                   fetch |-> [f EXCEPT !.data = data, !.pc = "returned",
                                       !.returns = "list"]]
             ELSE [mgr |-> mgr,
                   fetch |-> [f EXCEPT
                       !.data = data,
                       !.payload = [k \in DOMAIN f.payload \cup {"cursor"} |->
                                      IF k = "cursor" THEN next_cursor
                                      ELSE f.payload[k]],
                       !.count = Incremented(f.count)]]

InitFetch ==
    /\ WorkflowIdle
    /\ http = NoRequest
    /\ proc = NoProcessor
    /\ \E defined \in BOOLEAN :
          ats = [pc |-> "client", valid_time_difference_defined |-> defined,
                 now |-> 0, mgr |-> NoSyncTokens, fetch |-> NoFetch]

\* time passes between two fetches: the clock is looked at when a token's
\* age is VALID_DAYS or a day more
Tick ==
    /\ ats.fetch.pc # "loop"
    /\ \E days \in TickDays :
        /\ ats.now + days <= MaxNow
        /\ ats' = [ats EXCEPT !.now = @ + days, !.fetch = NoFetch]
    /\ UNCHANGED <<proc, http, tech, gate_helpers_defined, input, world, node,
                   state, sub, calls, result, error>>

\* _fetch_job_applications is called for a job
FetchJobApplications ==
    /\ ats.fetch.pc # "loop"
    /\ \E job_id \in JobPostingIds :
          LET s == start_fetch(ats.mgr, job_id, ats.now,
                               ats.valid_time_difference_defined)
          IN  ats' = [ats EXCEPT !.mgr = s.mgr, !.fetch = s.fetch]
    /\ UNCHANGED <<proc, http, tech, gate_helpers_defined, input, world, node,
                   state, sub, calls, result, error>>

\* requests.post(url, json=payload, ...) and what the loop does with the answer
PostApplicationList ==
    /\ ats.fetch.pc = "loop"
    /\ \E response \in {FailedResponse, ExpiredResponse} \cup Pages(ats.fetch) :
          LET s == loop_turn(ats.mgr, ats.fetch, response, ats.now)
          IN  ats' = [ats EXCEPT !.mgr = s.mgr, !.fetch = s.fetch]
    /\ UNCHANGED <<proc, http, tech, gate_helpers_defined, input, world, node,
                   state, sub, calls, result, error>>

NextFetch ==
    \/ Tick
    \/ FetchJobApplications
    \/ PostApplicationList

SpecFetch == InitFetch /\ [][NextFetch]_vars

\* the loop is running code and the server answers every request: a turn
\* that can be taken is taken
SpecFetchFair == SpecFetch /\ WF_vars(PostApplicationList)

---------------------------------------------------------------------------
(* data.py: ApplicationProcessor *)

MaxFetched == 2
MaxProcessorCalls == 2

TECH_JOBS == {"Software Engineer (Intern)"}

JobNames == TECH_JOBS \cup {"Recruiter"}

\* a URL as the list of its parts between "/": "https://github.com/octocat/"
\* is <<"https:", "", "github.com", "octocat", "">>
GitHubUrls ==
    {<<"https:", "", "github.com", "octocat">>,
     <<"https:", "", "github.com", "octocat", "">>}

\* candidate.info's socialLinks: none, a LinkedIn link, or one with a GitHub link
SocialLinks ==
    {<<>>, <<[type |-> "LinkedIn", url |-> <<"https:", "", "linkedin.com", "in", "o">>]>>}
    \cup {<<[type |-> "LinkedIn", url |-> <<"https:", "", "linkedin.com", "in", "o">>],
              [type |-> "GitHub", url |-> u]>> : u \in GitHubUrls}

InterviewStages == {"PreInterviewScreen", "Archived"}

\* the n-th application that call number c of application.list yields, and
\* what candidate.info answers for its candidate
RawApplication(c, n, stage) ==
    [id |-> <<"app", c, n>>, candidate |-> [id |-> <<"cand", c, n>>],
     currentInterviewStage |-> [type |-> stage]]

RawApplicant(cand_id, links) ==
    [name |-> <<"name", cand_id>>, socialLinks |-> links,
     resumeFileHandle |-> [handle |-> <<"handle", cand_id>>]]

\* get_resume_data: the text of the PDF behind a file handle
get_resume_data(handle) == <<"text", handle>>

\* str.rstrip("/") on the list of parts: the trailing empty parts go
RECURSIVE rstrip(_)
rstrip(url) ==
    IF Len(url) > 0 /\ url[Len(url)] = ""
    THEN rstrip(SubSeq(url, 1, Len(url) - 1))
    ELSE url

\* link["url"].rstrip("/").split("/")[-1]
github_username(url) ==
    LET parts == rstrip(url) IN
    IF Len(parts) = 0 THEN "" ELSE parts[Len(parts)]

\* the first link of type GitHub, or 0
RECURSIVE first_github(_, _)
first_github(links, k) ==
    IF k > Len(links) THEN 0
    ELSE IF links[k].type = "GitHub" THEN k
    ELSE first_github(links, k + 1)

\* the processor: self.applications, and the file handles get_resume_data
\* was asked for
Processor(applications, resumes) ==
    [applications |-> applications, resumes |-> resumes]

ParsedApplicant(cand_id, app_id, name, github, resume) ==
    [cand_id |-> cand_id, app_id |-> app_id, name |-> name, github |-> github,
     resume |-> resume]

\* _process_tech_applicant: without a GitHub name no resume is fetched and
\* line 304 appends `applicant`, the candidate.info answer
process_tech_applicant(self, applicant, candidate_id, application_id) ==
    LET k == first_github(applicant.socialLinks, 1)
        github == IF k = 0 THEN "" ELSE github_username(applicant.socialLinks[k].url)
    IN  IF github = ""
        THEN Processor(Append(self.applications, applicant), self.resumes)
        ELSE LET handle == applicant.resumeFileHandle.handle IN
             Processor(Append(self.applications,
                              ParsedApplicant(candidate_id, application_id,
                                              applicant.name, github,
                                              get_resume_data(handle))),
                       Append(self.resumes, handle))

\* _process_non_tech_application: the record has no github key
process_non_tech_application(self, applicant, candidate_id, application_id) ==
    LET handle == applicant.resumeFileHandle.handle IN
    Processor(Append(self.applications,
                     [cand_id |-> candidate_id, app_id |-> application_id,
                      name |-> applicant.name,
                      resume |-> get_resume_data(handle)]),
              Append(self.resumes, handle))

\* _process_application; `info` is what get_applicant_info answers
process_application(self, application, info, job_name) ==
    IF application.currentInterviewStage.type # "PreInterviewScreen"
    THEN self
    ELSE IF job_name \in TECH_JOBS
    THEN process_tech_applicant(self, info, application.candidate.id,
                                application.id)
    ELSE process_non_tech_application(self, info, application.candidate.id,
                                      application.id)

\* get_job_applications: len(applications) raises TypeError on the None of
\* a fetch that swallowed its error; an AttributeError of the fetch passes
get_job_applications(fetched) ==
    IF fetched.kind = "raised" THEN Raised("AttributeError")
    ELSE IF fetched.kind = "None" THEN Raised("TypeError")
    ELSE Returned(fetched.list)

\* _get_new_applications: the loop over the fetched applications
RECURSIVE get_new_applications(_, _, _, _, _)
get_new_applications(self, applications, infos, job_name, k) ==
    IF k > Len(applications) THEN self
    ELSE get_new_applications(
             process_application(self, applications[k], infos[k], job_name),
             applications, infos, job_name, k + 1)

\* get_applications: what it returns (self.applications) or raises
get_applications(self, fetched, infos, job_name) ==
    LET got == get_job_applications(fetched) IN
    IF got.raised # ""
    THEN [self |-> self, out |-> got]
    ELSE LET s == get_new_applications(self, got.update, infos, job_name, 1) IN
         [self |-> s, out |-> Returned(s.applications)]

\* what the client may hand to call number c
Fetched(c) ==
    {[kind |-> "raised", list |-> <<>>], [kind |-> "None", list |-> <<>>]}
    \cup {[kind |-> "list", list |-> [n \in 1..Len(stages) |->
                                         RawApplication(c, n, stages[n])]] :
             stages \in UNION {[1..m -> InterviewStages] : m \in 0..MaxFetched}}

InitProcessor ==
    /\ WorkflowIdle
    /\ http = NoRequest
    /\ ats = NoClient
    /\ proc = [pc |-> "processor", self |-> Processor(<<>>, <<>>), calls |-> 0,
               job_name |-> "", fetched |-> <<>>, infos |-> <<>>,
               out |-> Returned(None)]

\* processor.get_applications(job_posting_id, job_name)
GetApplications ==
    /\ proc.calls < MaxProcessorCalls
    /\ \E job_name \in JobNames, fetched \in Fetched(proc.calls + 1) :
        \E links \in [1..Len(fetched.list) -> SocialLinks] :
          LET infos == [n \in 1..Len(fetched.list) |->
                           RawApplicant(fetched.list[n].candidate.id, links[n])]
              r == get_applications(Processor(proc.self.applications, <<>>),
                                    fetched, infos, job_name)
          IN  proc' = [pc |-> "processor", self |-> r.self,
                       calls |-> proc.calls + 1, job_name |-> job_name,
                       fetched |-> fetched, infos |-> infos, out |-> r.out]
    /\ UNCHANGED <<ats, http, tech, gate_helpers_defined, input, world, node,
                   state, sub, calls, result, error>>

NextProcessor == GetApplications

SpecProcessor == InitProcessor /\ [][NextProcessor]_vars

---------------------------------------------------------------------------
(* Vocabulary of the properties *)

Tasks == DOMAIN sub

\* the list the invocation returned
ReturnedList == result[1].final_classification

\* a ScoreRecord of the list: (application_id, score)
RecordsOf(list, app_id) == {k \in DOMAIN list : list[k][1] = app_id}

\* where the gate of task i stands: "skipped" (non-technical graph),
\* "pending", "error" (validate_github raised), "passed" or "failed"
GateOutcome(i) ==
    IF ~tech THEN "skipped"
    ELSE IF sub[i].node = "github_validation_node" THEN "pending"
    ELSE IF sub[i].node = "RAISED" /\ calls[i].assess_candidate = 0 THEN "error"
    ELSE IF sub[i].state.is_valid THEN "passed"
    ELSE "failed"

\* a query of task i was issued and did not yield a usable answer
UserQueryFailed(i) ==
    /\ calls[i].user_exists > 0
    /\ \/ world[i].user.kind = "exception"
       \/ world[i].user.status_code = 500

ContributionQueryFailed(i) ==
    /\ calls[i].contribution_count > 0
    /\ \/ world[i].contrib.kind = "exception"
       \/ world[i].contrib.status_code # HTTP_OK

\* task j raises nothing of its own: its gate answers cleanly and, where it
\* goes on to scoring, the scoring returns
RunsClean(j) ==
    LET g == validate_github(gate_helpers_defined, world[j])
        a == assess_candidate(sub[j].state, world[j])
    IN  IF tech
        THEN /\ g.out.raised = ""
             /\ (g.out.update[1] => a.out.raised = "")
        ELSE a.out.raised = ""

---------------------------------------------------------------------------
(* C1..C10 *)

C4_EmptyHandleShortCircuits ==
    \A i \in Tasks :
        (tech /\ sub[i].state.github_username = ""
              /\ sub[i].node # "github_validation_node") =>
            /\ GateOutcome(i) = "failed"
            /\ sub[i].state.final_score[1] = 0
            /\ calls[i].user_exists = 0
            /\ calls[i].contribution_count = 0
            /\ calls[i].grader = 0

\* C5: once the gate has acted on an applicant whose queries are answered,
\* is_valid is true exactly when the identity exists and the contribution
\* count is above 2: a count of 2 fails, a count of 3 passes, a missing
\* identity fails.
C5_GatePassesAboveTwo ==
    \A i \in Tasks :
        (tech /\ sub[i].node # "github_validation_node"
              /\ world[i].user.kind = "response"
              /\ world[i].user.status_code \in {HTTP_OK, 404}
              /\ world[i].contrib.kind = "response"
              /\ (world[i].user.status_code = HTTP_OK
                    => world[i].contrib.status_code = HTTP_OK)) =>
            GateOutcome(i) =
                IF /\ world[i].user.status_code = HTTP_OK
                   /\ world[i].contrib.totalContributions > 2
                THEN "passed" ELSE "failed"

C7_FinalScoreIsMean ==
    \A i \in Tasks :
        calls[i].assess_candidate > 0 =>
            3 * sub[i].state.final_score[1] =
                (world[i].grade[1] + world[i].grade[2] + world[i].grade[3])
                    * sub[i].state.final_score[2]

---------------------------------------------------------------------------
(* C11..C20 *)

\* what the gate and the scoring of task i have recorded is what the task's
\* own answers, its own state and the shared job determine
OwnOutcome(i) ==
    LET g == validate_github(gate_helpers_defined, world[i])
        gated == tech /\ sub[i].node # "github_validation_node"
        scored == sub[i].node \in {"subgraph_output_node", "END"}
                    /\ calls[i].assess_candidate > 0
    IN  /\ sub[i].state.applicant_id = input.applicants[i].app_id
        /\ sub[i].state.job_name_subgraph = input.job_data.name
        /\ gated /\ g.out.raised # "" =>
              sub[i].node = "RAISED" /\ calls[i].assess_candidate = 0
        /\ gated /\ g.out.raised = "" =>
              sub[i].state.is_valid = g.out.update[1]
        /\ ~gated => sub[i].state.is_valid
        /\ sub[i].state.final_score =
              IF scored
              THEN assess_candidate(
                       [sub[i].state EXCEPT !.final_score = Score(0, 1)],
                       world[i]).out.update[1]
              ELSE Score(0, 1)

\* a step that changes task i leaves every other task as it was
IsolatedStep ==
    \A i \in Tasks : sub'[i] # sub[i] \/ calls'[i] # calls[i] =>
        \A j \in Tasks \ {i} : sub'[j] = sub[j] /\ calls'[j] = calls[j]

FannedOut ==
    \/ node \in {"create_analysis_subgraph", "END"}
    \/ node = "FAILED" /\ error.task # 0

\* C12: once initiate_analysis_nodes has run there is exactly one subgraph
\* task per applicant record of the batch (N applicants, N tasks, the i-th
\* task for the i-th applicant), each holding the batch's job name and
\* description and that applicant's own app_id, handle and resume, and
\* final_score 0.0 until a scoring has returned.
C12_OneInstancePerApplicant ==
    FannedOut =>
        /\ Len(sub) = Len(input.applicants)
        /\ \A i \in DOMAIN input.applicants :
            /\ sub[i].state.job_name_subgraph = input.job_data.name
            /\ sub[i].state.job_info_subgraph = input.job_data.info
            /\ sub[i].state.applicant_id = input.applicants[i].app_id
            /\ sub[i].state.github_username = input.applicants[i].github
            /\ sub[i].state.resume = input.applicants[i].resume
            /\ sub[i].node \in {"github_validation_node",
                                "candidate_assessor_node", "RAISED"}
                  => sub[i].state.final_score = Score(0, 1)
        /\ \A i, j \in Tasks :
              sub[i].state.applicant_id = sub[j].state.applicant_id => i = j

\* a batch of two applicants with different handles has just been fanned out
C12_Witness ==
    /\ node = "create_analysis_subgraph"
    /\ Len(sub) = 2
    /\ sub[1].state.github_username # sub[2].state.github_username
    /\ \A i \in Tasks : sub[i].node = entry_point(tech)

\* assess_candidate has acted on task i
Assessed(i) == calls[i].assess_candidate > 0

\* C13: once assess_candidate has acted on an applicant, the grader has been
\* invoked for them, and every prompt it was given carries the batch's job
\* name and description and that same applicant's resume text.
C13_GraderGivenJobAndOwnResume ==
    \A i \in Tasks :
        Assessed(i) =>
            /\ Len(calls[i].prompts) > 0
            /\ \A k \in DOMAIN calls[i].prompts :
                  /\ "applicant" \in DOMAIN calls[i].prompts[k]
                  /\ calls[i].prompts[k].job_name = input.job_data.name
                  /\ calls[i].prompts[k].job_info = input.job_data.info
                  /\ calls[i].prompts[k].applicant = input.applicants[i].resume

\* C14: over a whole run the grader is called at most once for any
\* applicant, and exactly once for every applicant that got past the gate
\* and was assessed (no retry, no skipped scoring).
C14_GraderCalledExactlyOnce ==
    \A i \in Tasks :
        /\ calls[i].grader <= 1
        /\ Assessed(i) => calls[i].grader = 1

\* the existence query of task i was answered: the identity exists
UserExistsAnswered(i) ==
    /\ calls[i].user_exists > 0
    /\ world[i].user.kind = "response"
    /\ world[i].user.status_code = HTTP_OK

C16_NonTechSkipsGateAndScores ==
    ~tech =>
        \A i \in Tasks :
            /\ calls[i].user_exists = 0
            /\ calls[i].contribution_count = 0
            /\ sub[i].state.is_valid
            /\ Assessed(i) =>
                  /\ calls[i].grader = 1
                  /\ sub[i].node \in {"subgraph_output_node", "END"}

\* the job lookup failed, or the applicant batch is empty
BadBatchInput ==
    \/ DOMAIN input.job_data = {}
    \/ Len(input.applicants) = 0

\* C17: when the job lookup failed or the batch is empty, no subgraph task is
\* spawned, no gate or scoring call is issued, no result is returned, and
\* the run never ends normally: it ends as a failure.
C17_BadInputFailsBeforeFanOut ==
    BadBatchInput =>
        /\ sub = <<>>
        /\ \A i \in DOMAIN calls : calls[i] = NoCalls
        /\ result = <<>>
        /\ node \in {"START", "preprocessor", "FAILED"}

\* the endpoint has answered the request at hand
Responded == http.pc = "responded"

\* the header carries the HMAC of this request's raw body under the secret
SignatureMatches(request) ==
    request.signature = <<hexdigest(ASHBY_WEBHOOK_SECRET, request.data)>>

\* correctly signed, JSON, and accepted by the schema
WellFormed(request) ==
    /\ SignatureMatches(request)
    /\ request.data.is_json
    /\ request.data.schema_valid

\* an applicationSubmit event for a job of the allow-list
Qualifies(request) ==
    /\ request.data.action = "applicationSubmit"
    /\ request.data.job_id \in JOB_IDS

\* C18: for a correctly signed, schema-valid request the endpoint fetches the
\* job and its applications and invokes the workflow if and only if the
\* action is applicationSubmit and the job id is in JOB_IDS.
C18_HandledIffSubmitOfAllowedJob ==
    Responded /\ WellFormed(http.request) =>
        LET did == /\ http.handled.fetched =
                        {"get_job_posting_data", "get_all_job_applications"}
                   /\ http.handled.invoked
        IN  /\ Qualifies(http.request) => did
            /\ ~Qualifies(http.request) =>
                  http.handled.fetched = {} /\ ~http.handled.invoked

C20_ScoresWrittenBack ==
    Responded /\ WellFormed(http.request) /\ Qualifies(http.request) =>
        /\ http.handled.invoked
        /\ \A a \in ApplicationsOf(http.request.data.job_id) :
              \E w \in http.handled.written : w[1] = a

---------------------------------------------------------------------------
(* C21..C30 *)

\* the view function returned (a response or nothing): no exception left it
ReturnedNormally == http.handled.returned \in {"response", "None"}

\* C21: a correctly signed, well-formed applicationSubmit webhook whose
\* handling raised no error has been answered with a response of status 200.
C21_SubmitAnswered200 ==
    /\ Responded
    /\ WellFormed(http.request)
    /\ http.request.data.action = "applicationSubmit"
    /\ ReturnedNormally
    => /\ http.handled.returned = "response"
       /\ http.handled.status = 200

\* C22: a correctly signed request whose content is not JSON, or whose JSON
\* fails schema validation, has been answered with a response of status 400,
\* with no job fetch and no workflow invocation.
C22_BadContentIs400 ==
    /\ Responded
    /\ SignatureMatches(http.request)
    /\ ~http.request.data.is_json \/ ~http.request.data.schema_valid
    => /\ http.handled.returned = "response"
       /\ http.handled.status = 400
       /\ http.handled.fetched = {}
       /\ ~http.handled.invoked

\* every external call of the batch returns a response: none raises
EveryCallReturns ==
    \A i \in DOMAIN world :
        world[i].user.kind = "response" /\ world[i].contrib.kind = "response"

\* C23: on a non-empty batch with its job found and every external call
\* returning, no subgraph task leaves the paths gate -> scoring -> output
\* and gate -> output by raising, and the run does not end as a failure
\* (a failed run is final: no task reaches DONE after it and output_node
\* never runs).
C23_EveryTaskReachesDone ==
    /\ EveryCallReturns
    /\ Len(input.applicants) > 0
    /\ DOMAIN input.job_data # {}
    => /\ node # "FAILED"
       /\ \A i \in Tasks : sub[i].node # "RAISED"

\* the SyncToken object the manager keeps for a job
TokenObject(job_id) == ats.mgr.objects[ats.mgr.sync_tokens[job_id]]

\* one object per job id; each object holds no token or a token issued for
\* its own job; the fetch under way uses the object of its own job and its
\* requests carry no sync token or that of its own job
OneSyncTokenPerJob ==
    /\ \A j, k \in DOMAIN ats.mgr.sync_tokens :
          ats.mgr.sync_tokens[j] = ats.mgr.sync_tokens[k] => j = k
    /\ \A j \in DOMAIN ats.mgr.sync_tokens :
          TokenObject(j).sync_token \in {None, Token(j)}
    /\ ats.fetch.pc # "idle" =>
          /\ ats.fetch.job_id \in DOMAIN ats.mgr.sync_tokens
          /\ ats.fetch.instance = ats.mgr.sync_tokens[ats.fetch.job_id]
          /\ "syncToken" \in DOMAIN ats.fetch.payload =>
                ats.fetch.payload.syncToken = Token(ats.fetch.job_id)

FetchStarts ==
    /\ ats.fetch.pc # "loop"
    /\ ats'.fetch.pc \in {"loop", "raised"}

\* C25: a call of get_sync_token_and_cursor never fails; it returns None
\* when no token was ever set or the token was last set more than 6 days
\* ago, and the stored token when it was last set at most 6 days ago.
C25_TokenReadNeverFails ==
    [][FetchStarts =>
        LET self == ats'.mgr.objects[ats'.fetch.instance]
            got == ats'.fetch.got
        IN  /\ got.raised = ""
            /\ got.update =
                  IF self.last_updated = None THEN None
                  ELSE IF ats'.now - self.last_updated[1] > VALID_DAYS THEN None
                  ELSE self.sync_token]_vars

\* this step is a turn of the paging loop; its response is ats'.fetch.response
LoopTurns == ats.fetch.pc = "loop" /\ ats'.fetch.pc # "idle"

\* the response is a page, and the last one: it has a sync token and says
\* that no more data is available
IsPage(response) == response.ok /\ response.success
IsLastPage(response) ==
    /\ IsPage(response)
    /\ Truthy(response.syncToken)
    /\ response.moreDataAvailable = FALSE

\* C26: in every turn of the paging loop the request carries the payload
\* left by the turn before; a page's results are appended once, after the
\* results collected so far, and nothing else is ever appended; at a page
\* that is not the last one the loop goes on with that page's nextCursor in
\* the payload; at the first page with a sync token and moreDataAvailable =
\* false the function returns the collected list and that page's sync token
\* is the one stored for the job.
C26_PagesOnceInOrder ==
    [][LoopTurns =>
        LET response == ats'.fetch.response IN
        /\ ats'.fetch.request = ats.fetch.payload
        /\ ats'.fetch.data =
              IF IsPage(response) THEN ats.fetch.data \o response.results
              ELSE ats.fetch.data
        /\ IsPage(response) /\ ~IsLastPage(response) =>
              /\ ats'.fetch.pc = "loop"
              /\ "cursor" \in DOMAIN ats'.fetch.payload
              /\ ats'.fetch.payload.cursor =
                    IF response.nextCursor = None THEN EmptyCursor
                    ELSE response.nextCursor
        /\ IsLastPage(response) =>
              /\ ats'.fetch.pc = "returned"
              /\ ats'.fetch.returns = "list"
              /\ ats'.mgr.objects[ats'.mgr.sync_tokens[ats'.fetch.job_id]].sync_token
                    = response.syncToken
        /\ ats'.fetch.returns = "list" => IsLastPage(response)]_vars

\* a fetch of two pages has returned both applications in order, the second
\* request having carried the first page's cursor
C26_Witness ==
    /\ ats.fetch.pc = "returned"
    /\ ats.fetch.returns = "list"
    /\ ats.fetch.data = <<Application(ats.fetch.job_id, 1),
                           Application(ats.fetch.job_id, 2)>>
    /\ "cursor" \in DOMAIN ats.fetch.request
    /\ ats.fetch.request.cursor = Cursor(1)
    /\ ats.fetch.response.results = <<Application(ats.fetch.job_id, 2)>>

\* C27: in a turn whose response reports sync_token_expired the job's stored
\* sync token is reset to none, no error arises, the results collected so far
\* stay as they are, and the loop goes on with a payload that has no
\* syncToken and is otherwise unchanged.
C27_ExpiryHandledCleanly ==
    [][LoopTurns /\ ats'.fetch.response = ExpiredResponse =>
        /\ ats'.mgr.objects[ats'.fetch.instance].sync_token = None
        /\ ats'.fetch.exc = ""
        /\ ats'.fetch.pc = "loop"
        /\ ats'.fetch.data = ats.fetch.data
        /\ "syncToken" \notin DOMAIN ats'.fetch.payload
        /\ \A k \in DOMAIN ats.fetch.payload \ {"syncToken"} :
              /\ k \in DOMAIN ats'.fetch.payload
              /\ ats'.fetch.payload[k] = ats.fetch.payload[k]]_vars

\* the loop is running and the answer it last dealt with was a page saying
\* that no more data is available
LoopsAfterNoMoreData ==
    /\ ats.fetch.pc = "loop"
    /\ ats.fetch.response # <<>>
    /\ IsPage(ats.fetch.response)
    /\ ats.fetch.response.moreDataAvailable = FALSE

\* C29: against a server that answers every request, the paging loop does
\* not go on forever once the server reports that no more data is
\* available: again and again the loop is either over (returned or raised)
\* or has not just been told moreDataAvailable = false.
C29_LoopTerminates == []<>(~LoopsAfterNoMoreData)

\* C30: a successfully received page does not count toward the limit of
\* failed requests (the counter is unchanged by a turn that received a page),
\* and the fetch is given up with "Too many failed requests" only when the
\* counter of failed responses is above 5.
C30_OnlyFailuresCount ==
    [][LoopTurns =>
        /\ IsPage(ats'.fetch.response) => ats'.fetch.count = ats.fetch.count
        /\ ats'.fetch.exc = "Exception" =>
              /\ ~ats'.fetch.response.ok
              /\ ats'.fetch.count > FAILED_LIMIT]_vars

\* the applications of the last call that are up for screening and whose
\* candidate has no GitHub link
WithoutGitHub ==
    {n \in DOMAIN proc.fetched.list :
        /\ proc.fetched.list[n].currentInterviewStage.type = "PreInterviewScreen"
        /\ first_github(proc.infos[n].socialLinks, 1) = 0}

\* C28: after get_applications for a technical job has returned, for every
\* screened applicant with no GitHub link no resume was fetched and the
\* applications list holds that applicant's parsed record: cand_id, app_id,
\* name, github = "" and resume = "".
C28_NoGitHubKeepsParsedRecord ==
    /\ proc.calls > 0
    /\ proc.job_name \in TECH_JOBS
    /\ proc.out.raised = ""
    => \A n \in WithoutGitHub :
          /\ proc.infos[n].resumeFileHandle.handle
                \notin {proc.self.resumes[k] : k \in DOMAIN proc.self.resumes}
          /\ \E k \in DOMAIN proc.self.applications :
                proc.self.applications[k] =
                    ParsedApplicant(proc.fetched.list[n].candidate.id,
                                    proc.fetched.list[n].id,
                                    proc.infos[n].name, "", "")

---------------------------------------------------------------------------
(* C31..C33 *)

\* what the call self._fetch_job_applications(...) of get_job_applications
\* evaluates to, for a fetch that is over: the list of line 209, the None
\* left by the except clause, or the exception raised before the try block
fetch_outcome(f) ==
    IF f.pc = "raised" THEN [kind |-> "raised", list |-> <<>>]
    ELSE IF f.returns = "None" THEN [kind |-> "None", list |-> <<>>]
    ELSE [kind |-> "list", list |-> f.data]

FetchOver == ats.fetch.pc \in {"returned", "raised"}

\* C31: for a fetch that is over, get_job_applications returns the collected
\* list when the fetch met no error, and raises the fetch's own error when it
\* was abandoned or hit one.
C31_FetchErrorReachesCaller ==
    FetchOver =>
        LET out == get_job_applications(fetch_outcome(ats.fetch)) IN
        IF ats.fetch.exc = ""
        THEN out.raised = "" /\ out.update = ats.fetch.data
        ELSE out.raised = ats.fetch.exc

\* C32: every record in the processor's applications list, for technical and
\* non-technical jobs alike, has the fields app_id, github and resume that
\* initiate_analysis_nodes reads.
C32_RecordsCarryFanOutFields ==
    \A k \in DOMAIN proc.self.applications :
        {"app_id", "github", "resume"} \subseteq DOMAIN proc.self.applications[k]

\* the candidate a record of the applications list is about
CandidateOf(record) ==
    IF "cand_id" \in DOMAIN record THEN record.cand_id ELSE record.name[2]

\* C33: the list a call of get_applications returns holds only records of
\* applications that this call fetched, none left over from an earlier call.
C33_NoLeftoverRecords ==
    proc.calls > 0 /\ proc.out.raised = "" =>
        \A k \in DOMAIN proc.out.update :
            \E n \in DOMAIN proc.fetched.list :
                CandidateOf(proc.out.update[k]) = proc.fetched.list[n].candidate.id

===========================================================================
